---- MODULE Spec2Model ----
(***************************************************************************)
(* Bulk-job workers of cold-email-ninja-app (src/workers):                 *)
(*   base.py                SupabaseWorkerBase: get_leads, get_api_key,    *)
(*                          update_progress, complete, fail                *)
(*   anymail_find_emails.py AnymailFindEmailsWorker.run                    *)
(*   clean_leads.py         CleanLeadsWorker.run                           *)
(*   scrape_google_maps.py  ScrapeGoogleMapsWorker.run                     *)
(*                                                                         *)
(* Two specifications share the module:                                    *)
(*   SpecFetch  one call of get_leads, page by page, against a leads table *)
(*              that other processes may modify between two pages;         *)
(*   Spec       one execution of a worker's run() under the job lifecycle  *)
(*              controller, with its thread pool and its store calls.      *)
(***************************************************************************)
EXTENDS Integers, Sequences, FiniteSets, TLC

(***************************************************************************)
(* Bounds of the model.                                                    *)
(***************************************************************************)
\* ids of the leads table are 1..MaxRows
MaxRows == 9
\* get_leads is called with limit in 0..MaxLimit
MaxLimit == 7
\* page sizes 1..MaxPageSize stand for PAGE_SIZE (5000 in base.py:75)
MaxPageSize == 5
\* rows of the initial table that do not match the filters
MaxOther == 1
\* writes of other processes during one get_leads call
MaxMutations == 1
\* leads in the campaign of an anymail_find_emails or clean_leads job
MaxLeads == 4
\* config max_leads is in 1..MaxTarget
MaxTarget == 2
\* config concurrent / workers is in 1..MaxConcurrent
MaxConcurrent == 2
\* keywords of a scrape_google_maps job: 0..MaxKeywords
MaxKeywords == 2
\* locations of a scrape_google_maps job: 0..MaxLocations
MaxLocations == 4
\* keywords x locations (total_searches) is at most MaxSearches
MaxSearches == 4
\* leads in the answer to one maps search: 0..MaxResults
MaxResults == 2
\* BATCH_SIZE (scrape_google_maps.py:30 has 50), scaled down
BATCH_SIZE == 2
\* the floor of batch_submit_size (scrape_google_maps.py:70 has 10), scaled down
MIN_SUBMIT == 3
\* progress cadence of anymail_find_emails (line 96 has 10), scaled down
ANYMAIL_EVERY == 2
\* progress cadence of clean_leads (line 97 has 50), scaled down
CLEAN_EVERY == 2
\* most leads accepted in a run of the buffer-and-flush part alone
MaxItems == 12
\* largest batch size of such a run
MaxBatch == 5
\* longest batch passed to a _flush_batch call examined alone
MaxFlush == 4

\* leads that both jobs of SpecStatus work on
MaxShared == 2

\* str(error)[:2000] in fail()
ERROR_MAX == 2000

Min(a, b) == IF a < b THEN a ELSE b
Max(a, b) == IF a > b THEN a ELSE b
Range(s) == {s[i] : i \in 1..Len(s)}
NoDup(s) == \A i, j \in 1..Len(s) : i # j => s[i] # s[j]

VARIABLES
    \* ---- the leads table and one get_leads call (SpecFetch) ----
    table,          \* id -> "absent" | "match" | "other" (row state w.r.t. the filters)
    limit,          \* get_leads argument
    page_size,      \* PAGE_SIZE of the call
    fetched,        \* all_leads of get_leads: ids accumulated so far
    offset,         \* offset of get_leads
    fpc,            \* "idle" | "loop" | "break" | "done"
    fresult,        \* the returned list once fpc = "done"
    requests,       \* history: the page requests issued, in order
    always_matched, \* history: ids that matched at the call and were never touched since
    ever_matched,   \* history: ids that matched at some moment of the call
    mut_log,        \* history: the foreign writes during the call ("insert" adds a
                    \* matching row, "remove" takes one away, "none" does neither)
    \* ---- one execution of a worker's run() (Spec) ----
    worker,         \* "anymail" | "clean" | "scrape"
    cfg,            \* job config and environment of the run
    pc,             \* position of the main thread in run()
    job,            \* the bulk_jobs row: status, error, result, progress
    self_processed, \* self._processed
    self_total,     \* self._total
    api_key,        \* local api_key of run() ("unset" before the lookup)
    leads,          \* local leads of run() (anymail, clean): ids
    cnt,            \* local counters of run(): processed, found, credits_used, valid, invalid
    exc,            \* message of the exception that left run(), if any
    calls,          \* history: calls made by run() so far, per operation
    \* ---- the ThreadPoolExecutor of the with block ----
    submitted,      \* tasks submitted to the current executor, in order
    started,        \* how many of them a thread has taken from the queue
    running,        \* tasks executing now
    finq,           \* finished tasks not yet yielded by as_completed, in finish order
    early,          \* tasks found finished when as_completed was entered (kept in
                    \* finish order, which as_completed does not look at)
    handled,        \* tasks whose future as_completed has yielded
    conc,           \* history: pairs of tasks that were executing at the same time
                    \* (kept until the future of one of the two is yielded)
    cur_conc,       \* history: the tasks that executed at the same time as cur_task
    \* ---- locals of ScrapeGoogleMapsWorker.run ----
    kw,             \* index of the keyword of the for loop
    task_idx,       \* task_idx
    batch_tasks,    \* batch_tasks: the tasks of the current sub-batch
    all_leads,      \* all_leads: the place_id of every accepted lead
    seen_place_ids, \* seen_place_ids
    searches_done,  \* searches_done
    cur,            \* leads of the future being handled that are still to be offered
    cur_task,       \* the task of the future being handled
    last_offer,     \* history: the last lead offered to the dedup check
    owner,          \* history: place_id -> [task: the task whose lead was accepted
                    \* with it, conc: the tasks that executed at the same time]
    flushes,        \* history: sizes of the batches passed to _flush_batch
    sink,           \* history: leads inserted into the leads table by this run
    \* ---- one _flush_batch call (SpecFlush) ----
    fl,             \* pc: position in _flush_batch; batch: its argument; i: index of
                    \* the fallback loop; writes: history of the insert calls made,
                    \* each with its rows and whether it returned
    \* ---- two jobs writing enrichment_status of the same leads (SpecStatus) ----
    es              \* stored: lead -> the enrichment_status column; snap: job -> the
                    \* leads as its get_leads returned them; left: job -> leads its
                    \* loop has not reached; pc: job -> position in run(); wrote:
                    \* history, job -> leads whose update_lead call returned

fetchVars == <<table, limit, page_size, fetched, offset, fpc, fresult, requests,
               always_matched, ever_matched, mut_log>>

jobVars == <<worker, cfg, pc, job, self_processed, self_total, api_key, leads, cnt,
             exc, calls>>

poolVars == <<submitted, started, running, finq, early, handled, conc, cur_conc>>

scrapeVars == <<kw, task_idx, batch_tasks, all_leads, seen_place_ids, searches_done, cur, cur_task,
                last_offer, owner, flushes, sink>>

runVars == <<jobVars, poolVars, scrapeVars>>

flushVars == <<fl>>
statusVars == <<es>>

vars == <<fetchVars, runVars, flushVars, statusVars>>

(***************************************************************************)
(* The leads table and the query of get_leads.                             *)
(***************************************************************************)
Ids == 1..MaxRows

\* created_at of a row: not unique, and not increasing with the id, so the
\* secondary sort on id decides the ties.
created_at(id) == id % 3

\* order(order_by).order("id"): the (created_at, id) total order
RowBefore(a, b) ==
    \/ created_at(a) < created_at(b)
    \/ created_at(a) = created_at(b) /\ a < b

RECURSIVE SortRows(_)
SortRows(S) ==
    IF S = {} THEN <<>>
    ELSE LET first == CHOOSE x \in S : \A y \in S \ {x} : RowBefore(x, y)
         IN  <<first>> \o SortRows(S \ {first})

\* the rows the filters (.eq, .not_.is_, .is_, .or_) select
Matching(t) == {id \in Ids : t[id] = "match"}

\* query.range(lo, hi): rows lo..hi (0-based, inclusive) of the ordered selection
RangeOf(s, lo, hi) == SubSeq(s, lo + 1, Min(hi + 1, Len(s)))

\* the select of lines 82-112 with .range(offset, offset + batch_size - 1)
QueryPage_offByOne(t, off, batch_size) ==
    RangeOf(SortRows(Matching(t)), off, off + batch_size)

QueryPage(t, off, batch_size) ==
    RangeOf(SortRows(Matching(t)), off, off + batch_size - 1)

\* batch_size = min(PAGE_SIZE, limit - len(all_leads))
BatchSize_noMin(ps, lim, acc) == ps

BatchSize(ps, lim, acc) == Min(ps, lim - Len(acc))

\* all_leads[:limit]
Truncate(s, lim) == SubSeq(s, 1, Min(lim, Len(s)))

\* One iteration of the while loop of get_leads on the state
\* st = [acc, off, brk]; the loop runs while ~st.brk /\ Len(st.acc) < lim.
LoopStep(t, ps, lim, st) ==
    LET batch_size == BatchSize(ps, lim, st.acc)
        batch == QueryPage(t, st.off, batch_size)
    IN  IF Len(batch) < batch_size
        THEN [acc |-> st.acc \o batch, off |-> st.off, brk |-> TRUE]
        ELSE [acc |-> st.acc \o batch, off |-> st.off + batch_size, brk |-> FALSE]

RECURSIVE LoopRun(_, _, _, _)
LoopRun(t, ps, lim, st) ==
    IF ~st.brk /\ Len(st.acc) < lim
    THEN LoopRun(t, ps, lim, LoopStep(t, ps, lim, st))
    ELSE st

\* get_leads against a table nobody else writes during the call
get_leads(t, ps, lim) ==
    Truncate(LoopRun(t, ps, lim, [acc |-> <<>>, off |-> 0, brk |-> FALSE]).acc, lim)

(***************************************************************************)
(* SupabaseWorkerBase (base.py): the job row and the calls that write it.  *)
(***************************************************************************)
None == "none"

\* a text of n characters (an error message)
Message(n) == [i \in 1..n |-> 1 + (i % 3)]

\* the texts of the exceptions a store call raises: short, and longer than
\* the error column keeps
StoreErrors == {Message(4), Message(ERROR_MAX + 1)}

\* the fixed messages run() passes to fail()
ConfigError == Message(5)

\* str(error)[:2000]
Truncated_none(msg) == msg

Truncated(msg) == SubSeq(msg, 1, Min(Len(msg), ERROR_MAX))

\* the bulk_jobs row as the job's creator leaves it (Null: a column not set,
\* <<>>: no error text)
Null == [null |-> TRUE]
NewJob ==
    [status |-> "running", error |-> <<>>, completed_at |-> None,
     result |-> Null, progress |-> Null]

\* extra keyword arguments of update_progress: none
NoExtra == [none |-> TRUE]

\* update_progress, lines 36-38: the row after the update
progress_row_noExtra(j, processed, total, extra) ==
    [j EXCEPT !.progress = [processed |-> processed, total |-> total, extra |-> NoExtra]]

progress_row(j, processed, total, extra) ==
    [j EXCEPT !.progress = [processed |-> processed, total |-> total, extra |-> extra]]

\* complete, lines 151-156: the row after the update (Null: no result given)
complete_row_zero(j, result, sp, st) ==
    [j EXCEPT !.status = "completed",
              !.completed_at = "now",
              !.result = IF result = Null THEN [processed |-> 0, total |-> 0]
                         ELSE result,
              !.progress = [processed |-> 0, total |-> 0, extra |-> NoExtra]]

complete_row(j, result, sp, st) ==
    [j EXCEPT !.status = "completed",
              !.completed_at = "now",
              !.result = IF result = Null THEN [processed |-> sp, total |-> st]
                         ELSE result,
              !.progress = [processed |-> sp, total |-> st, extra |-> NoExtra]]

\* fail, lines 161-165: the row after the update
fail_row_clearsProgress(j, error) ==
    [j EXCEPT !.status = "failed",
              !.error = Truncated(error),
              !.completed_at = "now",
              !.progress = Null]

fail_row(j, error) ==
    [j EXCEPT !.status = "failed",
              !.error = Truncated(error),
              !.completed_at = "now"]

\* get_api_key, lines 123-147. lookup is what the api_keys query gives: "key"
\* (a row with a key), "empty" (a row whose api_key is empty), "none" (no
\* data) or "error" (the query raises, which is swallowed); env is the
\* environment variable: "key", "empty" or "none".
get_api_key(lookup, env) ==
    IF lookup \in {"key", "empty"} THEN lookup ELSE env

\* "not api_key"
Falsy_noneOnly(v) == v = None

Falsy(v) == v \in {None, "empty"}

Lookups == {"key", "empty", "none", "error"}
EnvValues == {"key", "empty", "none"}

ZeroCounters == [processed |-> 0, found |-> 0, credits_used |-> 0, valid |-> 0, invalid |-> 0]
ZeroCalls ==
    [fail |-> 0, complete |-> 0, update_progress |-> 0, get_leads |-> 0,
     update_lead |-> 0, tasks |-> 0, bulk_insert |-> 0, single_insert |-> 0]

NoOffer == [task |-> 0, place_id |-> "", accepted |-> FALSE]

\* the run variables before run() is entered
RunFresh ==
    /\ pc = "start"
    /\ job = NewJob
    /\ self_processed = 0
    /\ self_total = 0
    /\ api_key = "unset"
    /\ leads = <<>>
    /\ cnt = ZeroCounters
    /\ exc = <<>>
    /\ calls = ZeroCalls
    /\ submitted = <<>>
    /\ started = 0
    /\ running = {}
    /\ finq = <<>>
    /\ early = <<>>
    /\ handled = {}
    /\ conc = {}
    /\ cur_conc = {}
    /\ kw = 0
    /\ task_idx = 0
    /\ batch_tasks = <<>>
    /\ all_leads = <<>>
    /\ seen_place_ids = {}
    /\ searches_done = 0
    /\ cur = <<>>
    /\ cur_task = 0
    /\ last_offer = NoOffer
    /\ owner = <<>>
    /\ flushes = <<>>
    /\ sink = 0

\* no job pair under way
NoStatus == [stored |-> <<>>, snap |-> <<>>, left |-> <<>>, pc |-> <<>>, wrote |-> <<>>]

\* no _flush_batch call under way
NoFlush == [pc |-> "idle", batch |-> <<>>, i |-> 0, writes |-> <<>>]

NoConfig == [max_leads |-> 0, concurrent |-> 0, keywords |-> 0, locations |-> 0,
             campaign_id |-> FALSE, batch_size |-> 0]

(***************************************************************************)
(* SpecFetch: one get_leads call, one action per page request.             *)
(***************************************************************************)
InitTables ==
    {t \in [Ids -> {"absent", "match", "other"}] :
        \E n \in 0..MaxRows :
            /\ \A id \in Ids : (t[id] = "absent") <=> (id > n)
            /\ Cardinality({id \in Ids : t[id] = "other"}) <= MaxOther}

InitFetch ==
    /\ table \in InitTables
    /\ limit \in 0..MaxLimit
    /\ page_size \in 1..MaxPageSize
    /\ fetched = <<>>
    /\ offset = 0
    /\ fpc = "loop"
    /\ fresult = <<>>
    /\ requests = <<>>
    /\ always_matched = Matching(table)
    /\ ever_matched = Matching(table)
    /\ mut_log = <<>>
    /\ worker = None
    /\ cfg = NoConfig
    /\ fl = NoFlush
    /\ es = NoStatus
    /\ RunFresh

\* lines 79-119: one pass of the while loop (one page request)
FetchPage ==
    /\ fpc = "loop"
    /\ Len(fetched) < limit
    /\ LET st == LoopStep(table, page_size, limit,
                          [acc |-> fetched, off |-> offset, brk |-> FALSE])
           size == BatchSize(page_size, limit, fetched)
       IN  /\ fetched' = st.acc
           /\ offset' = st.off
           /\ fpc' = IF st.brk THEN "break" ELSE "loop"
           /\ requests' = Append(requests,
                                 [offset |-> offset, size |-> size,
                                  before |-> Len(fetched),
                                  got |-> Len(st.acc) - Len(fetched)])
    /\ UNCHANGED <<table, limit, page_size, fresult, always_matched,
                   ever_matched, mut_log>>
    /\ UNCHANGED <<runVars, flushVars, statusVars>>

\* line 121: the loop is left (condition false, or break) and the list returned
FetchReturn ==
    /\ \/ fpc = "break"
       \/ fpc = "loop" /\ Len(fetched) >= limit
    /\ fresult' = Truncate(fetched, limit)
    /\ fpc' = "done"
    /\ UNCHANGED <<table, limit, page_size, fetched, offset, requests,
                   always_matched, ever_matched, mut_log>>
    /\ UNCHANGED <<runVars, flushVars, statusVars>>

\* Another process writes the leads table while the call is in progress
\* (between two page requests, or before the first one).
CanMutate == fpc = "loop" /\ Len(requests) > 0 /\ Len(mut_log) < MaxMutations

\* a new row that matches the filters
ForeignInsert ==
    /\ CanMutate
    /\ \E id \in Ids :
        /\ table[id] = "absent"
        /\ table' = [table EXCEPT ![id] = "match"]
        /\ ever_matched' = ever_matched \cup {id}
        /\ always_matched' = always_matched
        /\ mut_log' = Append(mut_log, "insert")
    /\ UNCHANGED <<limit, page_size, fetched, offset, fpc, fresult, requests>>
    /\ UNCHANGED <<runVars, flushVars, statusVars>>

\* a row is deleted
ForeignDelete ==
    /\ CanMutate
    /\ \E id \in Ids :
        /\ table[id] # "absent"
        /\ table' = [table EXCEPT ![id] = "absent"]
        /\ always_matched' = always_matched \ {id}
        /\ mut_log' = Append(mut_log, IF table[id] = "match" THEN "remove" ELSE "none")
    /\ UNCHANGED <<limit, page_size, fetched, offset, fpc, fresult, requests,
                   ever_matched>>
    /\ UNCHANGED <<runVars, flushVars, statusVars>>

\* a filtered column of a row is updated: the row starts or stops matching
ForeignUpdate ==
    /\ CanMutate
    /\ \E id \in Ids :
        /\ table[id] # "absent"
        /\ table' = [table EXCEPT ![id] = IF table[id] = "match" THEN "other" ELSE "match"]
        /\ always_matched' = always_matched \ {id}
        /\ ever_matched' = ever_matched \cup {id}
        /\ mut_log' = Append(mut_log, IF table[id] = "match" THEN "remove" ELSE "insert")
    /\ UNCHANGED <<limit, page_size, fetched, offset, fpc, fresult, requests>>
    /\ UNCHANGED <<runVars, flushVars, statusVars>>

NextFetch ==
    \/ FetchPage
    \/ FetchReturn
    \/ ForeignInsert
    \/ ForeignDelete
    \/ ForeignUpdate

SpecFetch == InitFetch /\ [][NextFetch]_vars

(***************************************************************************)
(* Spec: one execution of a worker's run() under the lifecycle controller. *)
(***************************************************************************)
Workers == {"anymail", "clean", "scrape"}

\* job config (with the campaign's table) a run can be started with
Configs(w) ==
    IF w = "scrape"
    THEN {c \in [max_leads : 0..MaxTarget, concurrent : 1..MaxConcurrent,
                  keywords : 0..MaxKeywords, locations : 0..MaxLocations,
                  campaign_id : BOOLEAN, batch_size : {BATCH_SIZE}] :
            c.keywords * c.locations <= MaxSearches}
    ELSE [max_leads : 0..MaxLeads,
          concurrent : IF w = "clean" THEN 1..MaxConcurrent ELSE {1},
          keywords : {0}, locations : {0}, campaign_id : {TRUE},
          batch_size : {BATCH_SIZE}]

\* the leads of the campaign: rows 1..n, all selected by the worker's filters
CampaignTables(w) ==
    {t \in [Ids -> {"absent", "match"}] :
        \E n \in 0..(IF w = "scrape" THEN 0 ELSE MaxLeads) :
            \A id \in Ids : (t[id] = "match") <=> (id <= n)}

InitRun ==
    /\ worker \in Workers
    /\ cfg \in Configs(worker)
    /\ table \in CampaignTables(worker)
    /\ limit = IF worker = "scrape" THEN 0 ELSE cfg.max_leads
    /\ page_size \in (IF worker = "scrape" THEN {MaxPageSize} ELSE {2, MaxPageSize})
    /\ fetched = <<>>
    /\ offset = 0
    /\ fpc = "idle"
    /\ fresult = <<>>
    /\ requests = <<>>
    /\ always_matched = {}
    /\ ever_matched = {}
    /\ mut_log = <<>>
    /\ fl = NoFlush
    /\ es = NoStatus
    /\ RunFresh

\* A write to the bulk_jobs row by run(): the row becomes row and run() goes
\* on at next, or the store call raises and the exception leaves run().
JobWrite(row, next) ==
    \/ /\ job' = row
       /\ pc' = next
       /\ exc' = exc
    \/ \E e \in StoreErrors :
        /\ job' = job
        /\ pc' = "raised"
        /\ exc' = e

Called(op) == [calls EXCEPT ![op] = @ + 1]

\* "self.fail(...)" is followed by "return": where run() is after the call
AfterFail_noReturn(next) == next

AfterFail(next) == "done"

\* "if not leads: self.complete({...}); return": the branch taken
IfNoLeads_skipped(ls, empty, next) == next

IfNoLeads(ls, empty, next) == IF ls = <<>> THEN empty ELSE next

(***************************************************************************)
(* AnymailFindEmailsWorker.run (anymail_find_emails.py).                   *)
(***************************************************************************)
\* lines 33-36: the key lookup; without a key, fail and return
AnymailGetKey ==
    /\ worker = "anymail" /\ pc = "start"
    /\ \E lookup \in Lookups, env \in EnvValues :
        /\ api_key' = get_api_key(lookup, env)
        /\ IF Falsy(api_key')
           THEN /\ JobWrite(fail_row(job, ConfigError), AfterFail("a_fetch"))
                /\ calls' = Called("fail")
           ELSE /\ pc' = "a_fetch"
                /\ UNCHANGED <<job, exc, calls>>
    /\ UNCHANGED <<worker, cfg, self_processed, self_total, leads, cnt>>
    /\ UNCHANGED <<fetchVars, flushVars, statusVars, poolVars, scrapeVars>>

\* lines 39-45: get_leads, then the leads with a website or a domain are kept
AnymailFetch ==
    /\ worker = "anymail" /\ pc = "a_fetch"
    /\ calls' = Called("get_leads")
    /\ \/ \E e \in StoreErrors :
            /\ pc' = "raised"
            /\ exc' = e
            /\ leads' = leads
       \/ LET got == get_leads(table, page_size, cfg.max_leads)
          IN  \E kept \in SUBSET Range(got) :
                /\ leads' = SelectSeq(got, LAMBDA id : id \in kept)
                /\ pc' = IfNoLeads(leads', "a_empty", "a_begin")
                /\ exc' = exc
    /\ UNCHANGED <<worker, cfg, job, self_processed, self_total, api_key, cnt>>
    /\ UNCHANGED <<fetchVars, flushVars, statusVars, poolVars, scrapeVars>>

\* lines 47-49: no leads: complete and return
AnymailEmpty ==
    /\ worker = "anymail" /\ pc = "a_empty"
    /\ JobWrite(complete_row(job, [processed |-> 0, message |-> "no leads"],
                             self_processed, self_total), "done")
    /\ calls' = Called("complete")
    /\ UNCHANGED <<worker, cfg, self_processed, self_total, api_key, leads, cnt>>
    /\ UNCHANGED <<fetchVars, flushVars, statusVars, poolVars, scrapeVars>>

\* line 52: update_progress(0, len(leads))
AnymailBegin ==
    /\ worker = "anymail" /\ pc = "a_begin"
    /\ self_processed' = 0
    /\ self_total' = Len(leads)
    /\ JobWrite(progress_row(job, 0, Len(leads), NoExtra), "a_loop")
    /\ calls' = Called("update_progress")
    /\ UNCHANGED <<worker, cfg, api_key, leads, cnt>>
    /\ UNCHANGED <<fetchVars, flushVars, statusVars, poolVars, scrapeVars>>

\* lines 58-98: one iteration of the for loop. domain_ok: _extract_domain
\* gives a domain; answer: what _find_email returns (None, an email with
\* status valid/accept_all, an email with another status); the update_lead
\* and update_progress calls may raise.
AnymailLead ==
    /\ worker = "anymail" /\ pc = "a_loop"
    /\ cnt.processed < Len(leads)
    /\ \E domain_ok \in BOOLEAN, answer \in {"none", "valid", "other"}, lead_ok \in BOOLEAN :
        LET processed == cnt.processed + 1
            hit == domain_ok /\ answer # "none"
            found == IF hit /\ lead_ok THEN cnt.found + 1 ELSE cnt.found
            credits == IF hit /\ lead_ok /\ answer = "valid"
                       THEN cnt.credits_used + 2 ELSE cnt.credits_used
            report == domain_ok /\ processed % ANYMAIL_EVERY = 0
            c1 == [calls EXCEPT !.tasks = IF domain_ok THEN @ + 1 ELSE @,
                                !.update_lead = IF hit THEN @ + 1 ELSE @]
        IN  /\ cnt' = [cnt EXCEPT !.processed = processed, !.found = found,
                                  !.credits_used = credits]
            /\ IF hit /\ ~lead_ok
               THEN /\ \E e \in StoreErrors : exc' = e
                    /\ pc' = "raised"
                    /\ calls' = c1
                    /\ UNCHANGED <<job, self_processed, self_total>>
               ELSE IF report
               THEN /\ self_processed' = processed
                    /\ self_total' = Len(leads)
                    /\ JobWrite(progress_row(job, processed, Len(leads),
                                    [found |-> found, credits_used |-> credits]),
                                "a_loop")
                    /\ calls' = [c1 EXCEPT !.update_progress = @ + 1]
               ELSE /\ calls' = c1
                    /\ UNCHANGED <<job, pc, exc, self_processed, self_total>>
    /\ UNCHANGED <<worker, cfg, api_key, leads>>
    /\ UNCHANGED <<fetchVars, flushVars, statusVars, poolVars, scrapeVars>>

\* line 100: the final update_progress
AnymailFinal ==
    /\ worker = "anymail" /\ pc = "a_loop"
    /\ cnt.processed = Len(leads)
    /\ self_processed' = cnt.processed
    /\ self_total' = Len(leads)
    /\ JobWrite(progress_row(job, cnt.processed, Len(leads),
                    [found |-> cnt.found, credits_used |-> cnt.credits_used]),
                "a_complete")
    /\ calls' = Called("update_progress")
    /\ UNCHANGED <<worker, cfg, api_key, leads, cnt>>
    /\ UNCHANGED <<fetchVars, flushVars, statusVars, poolVars, scrapeVars>>

\* lines 101-106: complete
AnymailComplete ==
    /\ worker = "anymail" /\ pc = "a_complete"
    /\ JobWrite(complete_row(job,
                    [processed |-> cnt.processed, found |-> cnt.found,
                     credits_used |-> cnt.credits_used, total |-> Len(leads)],
                    self_processed, self_total), "done")
    /\ calls' = Called("complete")
    /\ UNCHANGED <<worker, cfg, self_processed, self_total, api_key, leads, cnt>>
    /\ UNCHANGED <<fetchVars, flushVars, statusVars, poolVars, scrapeVars>>

(***************************************************************************)
(* ThreadPoolExecutor(max_workers) and as_completed, as the with blocks of *)
(* clean_leads.py:62-99 and scrape_google_maps.py:78-108 use them.         *)
(***************************************************************************)
\* max_workers of the executor: config "workers" / "concurrent"
max_workers_twice(c) == 2 * c

max_workers(c) == c

\* tasks of the current executor that a thread is executing
RunningHere == running \cap Range(submitted)

\* tasks submitted and not finished
Outstanding == (Len(submitted) - started) + Cardinality(running)

\* every task submitted to the current executor has finished
AllFinished == started = Len(submitted) /\ running = {}

\* a fresh executor (the with statement is entered)
NewExecutor ==
    /\ submitted' = <<>>
    /\ started' = 0
    /\ finq' = <<>>
    /\ early' = <<>>
    /\ handled' = {}
    /\ conc' = {}
    /\ cur_conc' = {}

\* A free thread of the pool takes the next queued task (the work queue is
\* first in, first out) and starts executing it.
PoolStart ==
    /\ started < Len(submitted)
    /\ Cardinality(RunningHere) < max_workers(cfg.concurrent)
    /\ LET t == submitted[started + 1]
       IN  /\ running' = running \cup {t}
           /\ conc' = conc \cup {{t, r} : r \in running}
    /\ started' = started + 1
    /\ calls' = Called("tasks")
    /\ UNCHANGED <<submitted, finq, early, handled, cur_conc>>
    /\ UNCHANGED <<worker, cfg, pc, job, self_processed, self_total, api_key, leads,
                   cnt, exc>>
    /\ UNCHANGED <<fetchVars, flushVars, statusVars, scrapeVars>>

\* A task returns (or raises): its future is finished.
PoolFinish ==
    /\ \E t \in running :
        /\ running' = running \ {t}
        /\ finq' = Append(finq, t)
    /\ UNCHANGED <<submitted, started, early, handled, conc, cur_conc>>
    /\ UNCHANGED <<jobVars, fetchVars, flushVars, statusVars, scrapeVars>>

\* as_completed(futures) is entered: the futures already finished are
\* yielded first, in no particular order; the others as they finish.
EnterAsCompleted ==
    /\ early' = finq
    /\ finq' = <<>>

\* the futures as_completed can yield next
Yieldable_any == Range(early) \cup Range(finq)

Yieldable == IF early # <<>> THEN Range(early)
             ELSE IF finq # <<>> THEN {Head(finq)} ELSE {}

\* as_completed yields the future of task t
Yield(t) ==
    /\ t \in Yieldable
    /\ early' = SelectSeq(early, LAMBDA u : u # t)
    /\ finq' = SelectSeq(finq, LAMBDA u : u # t)
    /\ handled' = handled \cup {t}
    /\ cur_conc' = {u \in Range(submitted) : {t, u} \in conc}
    /\ conc' = {p \in conc : t \notin p}

(***************************************************************************)
(* CleanLeadsWorker.run (clean_leads.py).                                  *)
(***************************************************************************)
\* lines 41-50: get_leads
CleanFetch ==
    /\ worker = "clean" /\ pc = "start"
    /\ calls' = Called("get_leads")
    /\ \/ \E e \in StoreErrors :
            /\ pc' = "raised"
            /\ exc' = e
            /\ leads' = leads
       \/ /\ leads' = get_leads(table, page_size, cfg.max_leads)
          /\ pc' = IfNoLeads(leads', "c_empty", "c_begin")
          /\ exc' = exc
    /\ UNCHANGED <<worker, cfg, job, self_processed, self_total, api_key, cnt>>
    /\ UNCHANGED <<fetchVars, flushVars, statusVars, poolVars, scrapeVars>>

\* lines 48-50: no leads: complete and return
CleanEmpty ==
    /\ worker = "clean" /\ pc = "c_empty"
    /\ JobWrite(complete_row(job, [processed |-> 0, message |-> "no leads"],
                             self_processed, self_total), "done")
    /\ calls' = Called("complete")
    /\ UNCHANGED <<worker, cfg, self_processed, self_total, api_key, leads, cnt>>
    /\ UNCHANGED <<fetchVars, flushVars, statusVars, poolVars, scrapeVars>>

\* line 56: update_progress(0, len(leads)); then the with block is entered
CleanBegin_noReport ==
    /\ worker = "clean" /\ pc = "c_begin"
    /\ pc' = "c_submit"
    /\ UNCHANGED <<worker, cfg, job, self_processed, self_total, api_key, leads, cnt,
                   exc, calls>>
    /\ UNCHANGED <<fetchVars, flushVars, statusVars, poolVars, scrapeVars>>

CleanBegin ==
    /\ worker = "clean" /\ pc = "c_begin"
    /\ self_processed' = 0
    /\ self_total' = Len(leads)
    /\ JobWrite(progress_row(job, 0, Len(leads), NoExtra), "c_submit")
    /\ calls' = Called("update_progress")
    /\ UNCHANGED <<worker, cfg, api_key, leads, cnt>>
    /\ UNCHANGED <<fetchVars, flushVars, statusVars, poolVars, scrapeVars>>

\* lines 64-69: one pass of the submit loop (every lead is submitted)
CleanSubmit ==
    /\ worker = "clean" /\ pc = "c_submit"
    /\ Len(submitted) < Len(leads)
    /\ submitted' = Append(submitted, leads[Len(submitted) + 1])
    /\ UNCHANGED <<started, running, finq, early, handled, conc, cur_conc>>
    /\ UNCHANGED <<jobVars, fetchVars, flushVars, statusVars, scrapeVars>>

\* line 71: the for loop over as_completed(futures) is entered
CleanEnterLoop ==
    /\ worker = "clean" /\ pc = "c_submit"
    /\ Len(submitted) = Len(leads)
    /\ EnterAsCompleted
    /\ pc' = "c_iter"
    /\ UNCHANGED <<submitted, started, running, handled, conc, cur_conc>>
    /\ UNCHANGED <<worker, cfg, job, self_processed, self_total, api_key, leads, cnt,
                   exc, calls>>
    /\ UNCHANGED <<fetchVars, flushVars, statusVars, scrapeVars>>

\* lines 71-99: one pass of the completion loop. outcome: what
\* future.result() gives (True, False, or it raises); lead_ok: update_lead
\* returns (otherwise it raises, inside the try).
CleanHandle ==
    /\ worker = "clean" /\ pc = "c_iter"
    /\ \E t \in Yieldable : Yield(t)
    /\ \E outcome \in {"valid", "invalid", "raise"}, lead_ok \in BOOLEAN :
        LET processed == cnt.processed + 1
            valid == IF outcome = "valid" THEN cnt.valid + 1 ELSE cnt.valid
            invalid == cnt.invalid
                       + (IF outcome = "invalid" THEN 1 ELSE 0)
                       + (IF outcome = "raise" \/ ~lead_ok THEN 1 ELSE 0)
            c1 == [calls EXCEPT !.update_lead = IF outcome = "raise" THEN @ ELSE @ + 1]
        IN  /\ outcome = "raise" => lead_ok
            /\ cnt' = [cnt EXCEPT !.processed = processed, !.valid = valid,
                                  !.invalid = invalid]
            /\ IF processed % CLEAN_EVERY = 0
               THEN /\ self_processed' = processed
                    /\ self_total' = Len(leads)
                    /\ \/ /\ job' = progress_row(job, processed, Len(leads),
                                        [valid |-> valid, invalid |-> invalid])
                          /\ pc' = pc
                          /\ exc' = exc
                       \/ \E e \in StoreErrors :
                            /\ job' = job
                            /\ pc' = "c_unwind"
                            /\ exc' = e
                    /\ calls' = [c1 EXCEPT !.update_progress = @ + 1]
               ELSE /\ calls' = c1
                    /\ UNCHANGED <<job, pc, exc, self_processed, self_total>>
    /\ UNCHANGED <<submitted, started, running>>
    /\ UNCHANGED <<worker, cfg, api_key, leads>>
    /\ UNCHANGED <<fetchVars, flushVars, statusVars, scrapeVars>>

\* the completion loop ends and the with block is left
CleanLoopEnd ==
    /\ worker = "clean" /\ pc = "c_iter"
    /\ handled = Range(submitted)
    /\ AllFinished
    /\ pc' = "c_final"
    /\ UNCHANGED <<worker, cfg, job, self_processed, self_total, api_key, leads, cnt,
                   exc, calls>>
    /\ UNCHANGED <<fetchVars, flushVars, statusVars, poolVars, scrapeVars>>

\* An exception leaves the with block: the executor's shutdown(wait=True)
\* lets every submitted task finish, then the exception leaves run().
CleanUnwind ==
    /\ worker = "clean" /\ pc = "c_unwind"
    /\ AllFinished
    /\ pc' = "raised"
    /\ UNCHANGED <<worker, cfg, job, self_processed, self_total, api_key, leads, cnt,
                   exc, calls>>
    /\ UNCHANGED <<fetchVars, flushVars, statusVars, poolVars, scrapeVars>>

\* line 101: the final update_progress
CleanFinal ==
    /\ worker = "clean" /\ pc = "c_final"
    /\ self_processed' = cnt.processed
    /\ self_total' = Len(leads)
    /\ JobWrite(progress_row(job, cnt.processed, Len(leads),
                    [valid |-> cnt.valid, invalid |-> cnt.invalid]),
                "c_complete")
    /\ calls' = Called("update_progress")
    /\ UNCHANGED <<worker, cfg, api_key, leads, cnt>>
    /\ UNCHANGED <<fetchVars, flushVars, statusVars, poolVars, scrapeVars>>

\* lines 102-108: complete
CleanComplete ==
    /\ worker = "clean" /\ pc = "c_complete"
    /\ JobWrite(complete_row(job,
                    [processed |-> cnt.processed, valid |-> cnt.valid,
                     invalid |-> cnt.invalid, total |-> Len(leads)],
                    self_processed, self_total), "done")
    /\ calls' = Called("complete")
    /\ UNCHANGED <<worker, cfg, self_processed, self_total, api_key, leads, cnt>>
    /\ UNCHANGED <<fetchVars, flushVars, statusVars, poolVars, scrapeVars>>

(***************************************************************************)
(* ScrapeGoogleMapsWorker.run (scrape_google_maps.py).                     *)
(***************************************************************************)
PlaceIds == {"p1"}

\* what one _search_maps call can return: up to MaxResults leads, each with
\* a place_id or with an empty one
SearchResults == UNION {[1..n -> PlaceIds \cup {""}] : n \in 0..MaxResults}

\* batch_submit_size = max(concurrent * 2, 10)
batch_submit_size_all(concurrent) == MaxLocations + 1

batch_submit_size(concurrent) == Max(concurrent * 2, MIN_SUBMIT)

\* the task of keyword k (1-based) and location i (1-based)
TaskOf(k, i) == (k - 1) * cfg.locations + i

\* lines 92-93: the lead is a duplicate and skipped
IsDuplicate_never(place_id, seen) == FALSE

IsDuplicate(place_id, seen) == place_id # "" /\ place_id \in seen

\* lines 94-95: the seen set after the lead was accepted
SeenAfter(place_id, seen) == IF place_id # "" THEN seen \cup {place_id} ELSE seen

\* _flush_batch, lines 178-190, on a batch of k leads: the leads table and
\* the insert calls afterwards. bulk_ok: the bulk insert returns; n_ok: how
\* many of the k individual inserts of the fallback return.
flush_batch(k, bulk_ok, n_ok) ==
    IF k = 0 \/ ~cfg.campaign_id
    THEN [sink |-> sink, bulk |-> 0, single |-> 0]
    ELSE IF bulk_ok
    THEN [sink |-> sink + k, bulk |-> 1, single |-> 0]
    ELSE [sink |-> sink + n_ok, bulk |-> 1, single |-> k]

\* line 99: len(all_leads) % BATCH_SIZE == 0 after the append
FlushDue(n, b) == n % b = 0

\* line 113: remaining = len(all_leads) % BATCH_SIZE
Remaining_none(n, b) == 0

Remaining(n, b) == n % b

\* the outcomes of the store calls of one _flush_batch(k)
FlushOutcomes(k) ==
    {o \in [bulk_ok : BOOLEAN, n_ok : 0..k] : o.bulk_ok => o.n_ok = 0}

\* lines 40-43: the key lookup; without a key, fail and return
ScrapeGetKey ==
    /\ worker = "scrape" /\ pc = "start"
    /\ \E lookup \in Lookups, env \in EnvValues :
        /\ api_key' = get_api_key(lookup, env)
        /\ IF Falsy(api_key')
           THEN /\ JobWrite(fail_row(job, ConfigError), AfterFail("s_load"))
                /\ calls' = Called("fail")
           ELSE /\ pc' = "s_load"
                /\ UNCHANGED <<job, exc, calls>>
    /\ UNCHANGED <<worker, cfg, self_processed, self_total, leads, cnt>>
    /\ UNCHANGED <<fetchVars, flushVars, statusVars, poolVars, scrapeVars>>

\* lines 46-57: _load_locations; without locations, fail and return
ScrapeLoad ==
    /\ worker = "scrape" /\ pc = "s_load"
    /\ IF cfg.locations = 0
       THEN /\ JobWrite(fail_row(job, ConfigError), AfterFail("s_for"))
            /\ calls' = Called("fail")
            /\ kw' = kw
       ELSE /\ pc' = "s_for"
            /\ kw' = 1
            /\ UNCHANGED <<job, exc, calls>>
    /\ UNCHANGED <<task_idx, batch_tasks, all_leads, seen_place_ids, searches_done,
                   cur, cur_task, last_offer, owner, flushes, sink>>
    /\ UNCHANGED <<worker, cfg, self_processed, self_total, api_key, leads, cnt>>
    /\ UNCHANGED <<fetchVars, flushVars, statusVars, poolVars>>

\* lines 59-71: the head of the for loop over the keywords
ScrapeFor ==
    /\ worker = "scrape" /\ pc = "s_for"
    /\ IF kw > cfg.keywords \/ Len(all_leads) >= cfg.max_leads
       THEN pc' = "s_rest" /\ task_idx' = task_idx
       ELSE pc' = "s_while" /\ task_idx' = 0
    /\ UNCHANGED <<kw, batch_tasks, all_leads, seen_place_ids, searches_done,
                   cur, cur_task, last_offer, owner, flushes, sink>>
    /\ UNCHANGED <<worker, cfg, job, self_processed, self_total, api_key, leads, cnt,
                   exc, calls>>
    /\ UNCHANGED <<fetchVars, flushVars, statusVars, poolVars>>

\* line 73: while task_idx < len(tasks) and len(all_leads) < max_leads
WhileCond_noTarget(idx, n_tasks, n_leads, max_leads) == idx < n_tasks

WhileCond(idx, n_tasks, n_leads, max_leads) == idx < n_tasks /\ n_leads < max_leads

\* line 74: batch_end = min(task_idx + batch_submit_size, len(tasks))
BatchEnd_stuck(idx, size, n_tasks) == idx

BatchEnd(idx, size, n_tasks) == Min(idx + size, n_tasks)

\* lines 73-78: the head of the while loop; a sub-batch is cut and its
\* executor created, or the keyword is finished
ScrapeWhile ==
    /\ worker = "scrape" /\ pc = "s_while"
    /\ IF WhileCond(task_idx, cfg.locations, Len(all_leads), cfg.max_leads)
       THEN LET batch_end == BatchEnd(task_idx, batch_submit_size(cfg.concurrent),
                                      cfg.locations)
            IN  /\ batch_tasks' = [i \in 1..(batch_end - task_idx) |->
                                        TaskOf(kw, task_idx + i)]
                /\ task_idx' = batch_end
                /\ NewExecutor
                /\ owner' = [k \in DOMAIN owner |-> [owner[k] EXCEPT !.conc = {}]]
                /\ pc' = "s_submit"
                /\ kw' = kw
       ELSE /\ kw' = kw + 1
            /\ pc' = "s_for"
            /\ UNCHANGED <<task_idx, batch_tasks, submitted, started, finq, early,
                           handled, conc, cur_conc, owner>>
    /\ UNCHANGED running
    /\ UNCHANGED <<all_leads, seen_place_ids, searches_done,
                   cur, cur_task, last_offer, flushes, sink>>
    /\ UNCHANGED <<worker, cfg, job, self_processed, self_total, api_key, leads, cnt,
                   exc, calls>>
    /\ UNCHANGED <<fetchVars, flushVars, statusVars>>

\* lines 80-84: one pass of the submit loop
ScrapeSubmit ==
    /\ worker = "scrape" /\ pc = "s_submit"
    /\ Len(submitted) < Len(batch_tasks)
    /\ submitted' = Append(submitted, batch_tasks[Len(submitted) + 1])
    /\ UNCHANGED <<started, running, finq, early, handled, conc, cur_conc>>
    /\ UNCHANGED <<jobVars, fetchVars, flushVars, statusVars, scrapeVars>>

\* line 86: the for loop over as_completed(futures) is entered
ScrapeEnterLoop ==
    /\ worker = "scrape" /\ pc = "s_submit"
    /\ Len(submitted) = Len(batch_tasks)
    /\ EnterAsCompleted
    /\ pc' = "s_iter"
    /\ UNCHANGED <<submitted, started, running, handled, conc, cur_conc>>
    /\ UNCHANGED <<worker, cfg, job, self_processed, self_total, api_key, leads, cnt,
                   exc, calls>>
    /\ UNCHANGED <<fetchVars, flushVars, statusVars, scrapeVars>>

\* lines 86-89: as_completed yields a future; searches_done += 1;
\* future.result() returns the leads (or raises, which the except logs)
ScrapeHandle ==
    /\ worker = "scrape" /\ pc = "s_iter"
    /\ \E t \in Yieldable :
        /\ Yield(t)
        /\ cur_task' = t
    /\ searches_done' = searches_done + 1
    /\ \/ cur' \in SearchResults
       \/ cur' = <<>>
    /\ pc' = "s_offer"
    /\ UNCHANGED <<submitted, started, running>>
    /\ UNCHANGED <<kw, task_idx, batch_tasks, all_leads, seen_place_ids,
                   last_offer, owner, flushes, sink>>
    /\ UNCHANGED <<worker, cfg, job, self_processed, self_total, api_key, leads, cnt,
                   exc, calls>>
    /\ UNCHANGED <<fetchVars, flushVars, statusVars>>

\* lines 90-103: one pass of the loop over the leads of the future: the
\* dedup check, the append, and on a full batch _flush_batch and
\* update_progress (an exception of update_progress is caught at line 104,
\* which skips the remaining leads of this future)
ScrapeOffer ==
    /\ worker = "scrape" /\ pc = "s_offer"
    /\ cur # <<>>
    /\ LET place_id == Head(cur)
       IN  IF IsDuplicate(place_id, seen_place_ids)
           THEN /\ cur' = Tail(cur)
                /\ last_offer' = [task |-> cur_task, place_id |-> place_id,
                                  accepted |-> FALSE]
                /\ UNCHANGED <<all_leads, seen_place_ids, owner, flushes, sink, job,
                               self_processed, self_total, calls>>
           ELSE /\ seen_place_ids' = SeenAfter(place_id, seen_place_ids)
                /\ all_leads' = Append(all_leads, place_id)
                /\ owner' = IF place_id # ""
                            THEN (place_id :> [task |-> cur_task, conc |-> cur_conc])
                                 @@ owner
                            ELSE owner
                /\ last_offer' = [task |-> cur_task, place_id |-> place_id,
                                  accepted |-> TRUE]
                /\ IF FlushDue(Len(all_leads'), cfg.batch_size)
                   THEN \E o \in FlushOutcomes(cfg.batch_size) :
                          LET f == flush_batch(cfg.batch_size, o.bulk_ok, o.n_ok)
                          IN  /\ flushes' = Append(flushes, cfg.batch_size)
                              /\ sink' = f.sink
                              /\ calls' = [calls EXCEPT
                                             !.bulk_insert = @ + f.bulk,
                                             !.single_insert = @ + f.single,
                                             !.update_progress = @ + 1]
                              /\ self_processed' = Len(all_leads')
                              /\ self_total' = cfg.max_leads
                              /\ \/ /\ job' = progress_row(job, Len(all_leads'),
                                                cfg.max_leads,
                                                [searches |-> searches_done,
                                                 total_searches |->
                                                    cfg.keywords * cfg.locations])
                                    /\ cur' = Tail(cur)
                                 \/ /\ job' = job
                                    /\ cur' = <<>>
                   ELSE /\ cur' = Tail(cur)
                        /\ UNCHANGED <<flushes, sink, job, self_processed,
                                       self_total, calls>>
    /\ UNCHANGED <<kw, task_idx, batch_tasks, searches_done, cur_task>>
    /\ UNCHANGED <<worker, cfg, pc, api_key, leads, cnt, exc>>
    /\ UNCHANGED <<fetchVars, flushVars, statusVars, poolVars>>

\* line 107: if len(all_leads) >= max_leads
TargetReached_never(n_leads, max_leads) == FALSE

TargetReached(n_leads, max_leads) == n_leads >= max_leads

\* lines 107-108: the future is dealt with; break when the target is reached
ScrapeAfter ==
    /\ worker = "scrape" /\ pc = "s_offer"
    /\ cur = <<>>
    /\ pc' = IF TargetReached(Len(all_leads), cfg.max_leads) THEN "s_exit" ELSE "s_iter"
    /\ cur_conc' = {}
    /\ UNCHANGED <<submitted, started, running, finq, early, handled, conc>>
    /\ UNCHANGED <<worker, cfg, job, self_processed, self_total, api_key, leads, cnt,
                   exc, calls>>
    /\ UNCHANGED <<fetchVars, flushVars, statusVars, scrapeVars>>

\* the completion loop has yielded every future of the sub-batch
ScrapeLoopEnd ==
    /\ worker = "scrape" /\ pc = "s_iter"
    /\ handled = Range(submitted)
    /\ pc' = "s_exit"
    /\ UNCHANGED <<worker, cfg, job, self_processed, self_total, api_key, leads, cnt,
                   exc, calls>>
    /\ UNCHANGED <<fetchVars, flushVars, statusVars, poolVars, scrapeVars>>

\* the with block is left: shutdown(wait=True) returns once every submitted
\* task has finished (line 110 follows)
ScrapeExit ==
    /\ worker = "scrape" /\ pc = "s_exit"
    /\ AllFinished
    /\ pc' = "s_while"
    /\ UNCHANGED <<worker, cfg, job, self_processed, self_total, api_key, leads, cnt,
                   exc, calls>>
    /\ UNCHANGED <<fetchVars, flushVars, statusVars, poolVars, scrapeVars>>

\* lines 113-115: the remaining leads are flushed
ScrapeRest ==
    /\ worker = "scrape" /\ pc = "s_rest"
    /\ LET remaining == Remaining(Len(all_leads), cfg.batch_size)
       IN  IF remaining > 0
           THEN \E o \in FlushOutcomes(remaining) :
                  LET f == flush_batch(remaining, o.bulk_ok, o.n_ok)
                  IN  /\ flushes' = Append(flushes, remaining)
                      /\ sink' = f.sink
                      /\ calls' = [calls EXCEPT !.bulk_insert = @ + f.bulk,
                                                !.single_insert = @ + f.single]
           ELSE UNCHANGED <<flushes, sink, calls>>
    /\ pc' = "s_final"
    /\ UNCHANGED <<kw, task_idx, batch_tasks, all_leads, seen_place_ids, searches_done,
                   cur, cur_task, last_offer, owner>>
    /\ UNCHANGED <<worker, cfg, job, self_processed, self_total, api_key, leads, cnt,
                   exc>>
    /\ UNCHANGED <<fetchVars, flushVars, statusVars, poolVars>>

\* line 117: update_progress(len(all_leads), len(all_leads))
ScrapeFinal ==
    /\ worker = "scrape" /\ pc = "s_final"
    /\ self_processed' = Len(all_leads)
    /\ self_total' = Len(all_leads)
    /\ JobWrite(progress_row(job, Len(all_leads), Len(all_leads), NoExtra),
                "s_complete")
    /\ calls' = Called("update_progress")
    /\ UNCHANGED <<worker, cfg, api_key, leads, cnt>>
    /\ UNCHANGED <<fetchVars, flushVars, statusVars, poolVars, scrapeVars>>

\* lines 118-123: complete
ScrapeComplete ==
    /\ worker = "scrape" /\ pc = "s_complete"
    /\ JobWrite(complete_row(job,
                    [total_leads |-> Len(all_leads),
                     unique_places |-> Cardinality(seen_place_ids),
                     keywords |-> cfg.keywords,
                     searches_completed |-> searches_done],
                    self_processed, self_total), "done")
    /\ calls' = Called("complete")
    /\ UNCHANGED <<worker, cfg, self_processed, self_total, api_key, leads, cnt>>
    /\ UNCHANGED <<fetchVars, flushVars, statusVars, poolVars, scrapeVars>>

(***************************************************************************)
(* The job lifecycle controller that calls run(): an exception that leaves *)
(* run() is recorded as the job's failure.                                 *)
(***************************************************************************)
ControllerRecordFailure ==
    /\ pc = "raised"
    /\ job' = fail_row(job, exc)
    /\ pc' = "done"
    /\ UNCHANGED <<worker, cfg, self_processed, self_total, api_key, leads, cnt, exc, calls>>
    /\ UNCHANGED <<fetchVars, flushVars, statusVars, poolVars, scrapeVars>>

Next ==
    \/ AnymailGetKey
    \/ AnymailFetch
    \/ AnymailEmpty
    \/ AnymailBegin
    \/ AnymailLead
    \/ AnymailFinal
    \/ AnymailComplete
    \/ CleanFetch
    \/ CleanEmpty
    \/ CleanBegin
    \/ CleanSubmit
    \/ CleanEnterLoop
    \/ CleanHandle
    \/ CleanLoopEnd
    \/ CleanUnwind
    \/ CleanFinal
    \/ CleanComplete
    \/ ScrapeGetKey
    \/ ScrapeLoad
    \/ ScrapeFor
    \/ ScrapeWhile
    \/ ScrapeSubmit
    \/ ScrapeEnterLoop
    \/ ScrapeHandle
    \/ ScrapeOffer
    \/ ScrapeAfter
    \/ ScrapeLoopEnd
    \/ ScrapeExit
    \/ ScrapeRest
    \/ ScrapeFinal
    \/ ScrapeComplete
    \/ PoolStart
    \/ PoolFinish
    \/ ControllerRecordFailure

Spec == InitRun /\ [][Next]_vars

\* run() with its threads scheduled: the main thread and the pool threads
\* go on whenever one of them can, and every task returns
SpecLive == InitRun /\ [][Next]_vars /\ WF_vars(Next)

(***************************************************************************)
(* SpecSink: scrape_google_maps, and next to it the buffer-and-flush part  *)
(* of its run() (lines 96-100 and 113-115) driven alone, with any batch    *)
(* size up to MaxBatch and up to MaxItems accepted leads.                  *)
(***************************************************************************)
SinkConfigs ==
    [max_leads : 0..MaxItems, concurrent : {1}, keywords : {1}, locations : {1},
     campaign_id : {TRUE}, batch_size : 1..MaxBatch]

InitSink ==
    \/ InitRun /\ worker = "scrape"
    \/ /\ worker = "sink"
       /\ cfg \in SinkConfigs
       /\ table = [id \in Ids |-> "absent"]
       /\ limit = 0
       /\ page_size = MaxPageSize
       /\ fetched = <<>>
       /\ offset = 0
       /\ fpc = "idle"
       /\ fresult = <<>>
       /\ requests = <<>>
       /\ always_matched = {}
       /\ ever_matched = {}
       /\ mut_log = <<>>
       /\ fl = NoFlush
       /\ es = NoStatus
       /\ RunFresh

\* lines 96-100: a lead is accepted (cfg.max_leads of them in all) and the
\* last batch_size leads are flushed when the count is a multiple of it
SinkAccept ==
    /\ worker = "sink" /\ pc = "start"
    /\ Len(all_leads) < cfg.max_leads
    /\ all_leads' = Append(all_leads, "")
    /\ IF FlushDue(Len(all_leads'), cfg.batch_size)
       THEN \E o \in FlushOutcomes(cfg.batch_size) :
              LET f == flush_batch(cfg.batch_size, o.bulk_ok, o.n_ok)
              IN  /\ flushes' = Append(flushes, cfg.batch_size)
                  /\ sink' = f.sink
                  /\ calls' = [calls EXCEPT !.bulk_insert = @ + f.bulk,
                                            !.single_insert = @ + f.single]
       ELSE UNCHANGED <<flushes, sink, calls>>
    /\ UNCHANGED <<kw, task_idx, batch_tasks, seen_place_ids, searches_done,
                   cur, cur_task, last_offer, owner>>
    /\ UNCHANGED <<worker, cfg, pc, job, self_processed, self_total, api_key, leads,
                   cnt, exc>>
    /\ UNCHANGED <<fetchVars, flushVars, statusVars, poolVars>>

\* lines 113-115: the run ends and the remainder is flushed
SinkRest ==
    /\ worker = "sink" /\ pc = "start"
    /\ Len(all_leads) = cfg.max_leads
    /\ LET remaining == Remaining(Len(all_leads), cfg.batch_size)
       IN  IF remaining > 0
           THEN \E o \in FlushOutcomes(remaining) :
                  LET f == flush_batch(remaining, o.bulk_ok, o.n_ok)
                  IN  /\ flushes' = Append(flushes, remaining)
                      /\ sink' = f.sink
                      /\ calls' = [calls EXCEPT !.bulk_insert = @ + f.bulk,
                                                !.single_insert = @ + f.single]
           ELSE UNCHANGED <<flushes, sink, calls>>
    /\ pc' = "done"
    /\ UNCHANGED <<kw, task_idx, batch_tasks, all_leads, seen_place_ids, searches_done,
                   cur, cur_task, last_offer, owner>>
    /\ UNCHANGED <<worker, cfg, job, self_processed, self_total, api_key, leads, cnt,
                   exc>>
    /\ UNCHANGED <<fetchVars, flushVars, statusVars, poolVars>>

NextSink ==
    \/ ScrapeGetKey
    \/ ScrapeLoad
    \/ ScrapeFor
    \/ ScrapeWhile
    \/ ScrapeSubmit
    \/ ScrapeEnterLoop
    \/ ScrapeHandle
    \/ ScrapeOffer
    \/ ScrapeAfter
    \/ ScrapeLoopEnd
    \/ ScrapeExit
    \/ ScrapeRest
    \/ ScrapeFinal
    \/ ScrapeComplete
    \/ PoolStart
    \/ PoolFinish
    \/ ControllerRecordFailure
    \/ SinkAccept
    \/ SinkRest

SpecSink == InitSink /\ [][NextSink]_vars

(***************************************************************************)
(* SpecFlush: one call of _flush_batch (scrape_google_maps.py:178-190),    *)
(* one action per insert call.                                             *)
(***************************************************************************)
\* the batches a call is examined with: the leads 1..k
FlushBatches == {[j \in 1..k |-> j] : k \in 0..MaxFlush}

InitFlush ==
    /\ table = [id \in Ids |-> "absent"]
    /\ limit = 0
    /\ page_size = MaxPageSize
    /\ fetched = <<>>
    /\ offset = 0
    /\ fpc = "idle"
    /\ fresult = <<>>
    /\ requests = <<>>
    /\ always_matched = {}
    /\ ever_matched = {}
    /\ mut_log = <<>>
    /\ worker = "scrape"
    /\ \E c \in BOOLEAN : cfg = [NoConfig EXCEPT !.campaign_id = c]
    /\ \E b \in FlushBatches : fl = [NoFlush EXCEPT !.pc = "call", !.batch = b]
    /\ es = NoStatus
    /\ RunFresh

\* lines 186-190: where the fallback loop is after an individual insert
\* that returned (ok) or raised (the except clause passes)
AfterSingle_stop(ok) == IF ok THEN "each" ELSE "raised"

AfterSingle(ok) == "each"

\* lines 180-181: nothing to do without a batch or without a campaign
FlushEnter ==
    /\ fl.pc = "call"
    /\ fl' = [fl EXCEPT !.pc = IF fl.batch = <<>> \/ ~cfg.campaign_id
                               THEN "returned" ELSE "bulk"]
    /\ UNCHANGED <<fetchVars, runVars, statusVars>>

\* lines 182-185: the bulk insert returns, or raises and the except clause
\* starts the fallback loop
FlushBulk ==
    /\ fl.pc = "bulk"
    /\ \E ok \in BOOLEAN :
        fl' = [fl EXCEPT !.writes = Append(@, [rows |-> fl.batch, ok |-> ok]),
                         !.pc = IF ok THEN "returned" ELSE "each",
                         !.i = 1]
    /\ UNCHANGED <<fetchVars, runVars, statusVars>>

\* lines 186-190: one pass of the fallback loop: the insert of one lead
FlushEach ==
    /\ fl.pc = "each"
    /\ fl.i <= Len(fl.batch)
    /\ \E ok \in BOOLEAN :
        fl' = [fl EXCEPT !.writes = Append(@, [rows |-> <<fl.batch[fl.i]>>, ok |-> ok]),
                         !.pc = AfterSingle(ok),
                         !.i = @ + 1]
    /\ UNCHANGED <<fetchVars, runVars, statusVars>>

\* the fallback loop is exhausted and _flush_batch returns
FlushReturn ==
    /\ fl.pc = "each"
    /\ fl.i > Len(fl.batch)
    /\ fl' = [fl EXCEPT !.pc = "returned"]
    /\ UNCHANGED <<fetchVars, runVars, statusVars>>

NextFlush ==
    \/ FlushEnter
    \/ FlushBulk
    \/ FlushEach
    \/ FlushReturn

SpecFlush == InitFlush /\ [][NextFlush]_vars

(***************************************************************************)
(* The enrichment_status writes of clean_leads and anymail_find_emails     *)
(* running on the same campaign (SpecStatus): each job fetches its leads,  *)
(* then writes one lead at a time.                                         *)
(***************************************************************************)
SharedLeads == 1..MaxShared

StatusJobs == {"clean", "anymail"}

\* the keys of the enrichment_status map: the two the workers write and one
\* set by some earlier step
StatusKeys == {"website_validated", "anymail_emails", "other"}

Absent == "absent"

EmptyStatus == [k \in StatusKeys |-> Absent]

\* the values the column starts with: null, or a map holding an earlier key
InitialStatus == {Null, [EmptyStatus EXCEPT !["other"] = "set"]}

\* clean_leads.py:81/89 and anymail_find_emails.py:86: the key a job writes
OwnKey(j) == IF j = "clean" THEN "website_validated" ELSE "anymail_emails"

\* clean_leads.py:81/89 (True, False) and anymail_find_emails.py:86 ("done")
OwnValues(j) == IF j = "clean" THEN {"true", "false"} ELSE {"done"}

\* lead.get("enrichment_status") or {}
OrEmpty(status) == IF status = Null THEN EmptyStatus ELSE status

\* {**(lead.get("enrichment_status") or {}), key: value}
Spread(status, key, value) == [OrEmpty(status) EXCEPT ![key] = value]

\* the lead the loop of job j may take next: list order in
\* anymail_find_emails, completion order in clean_leads
NextLeads(j) ==
    IF j = "clean" THEN es.left[j]
    ELSE {l \in es.left[j] : \A m \in es.left[j] : l <= m}

InitStatus ==
    /\ table = [id \in Ids |-> "absent"]
    /\ limit = 0
    /\ page_size = MaxPageSize
    /\ fetched = <<>>
    /\ offset = 0
    /\ fpc = "idle"
    /\ fresult = <<>>
    /\ requests = <<>>
    /\ always_matched = {}
    /\ ever_matched = {}
    /\ mut_log = <<>>
    /\ worker = "pair"
    /\ cfg = NoConfig
    /\ fl = NoFlush
    /\ \E st \in [SharedLeads -> InitialStatus] :
        es = [stored |-> st,
              snap |-> [j \in StatusJobs |-> st],
              left |-> [j \in StatusJobs |-> {}],
              pc |-> [j \in StatusJobs |-> "fetch"],
              wrote |-> [j \in StatusJobs |-> {}]]
    /\ RunFresh

\* get_leads of job j returns the rows as they are stored now
\* (anymail_find_emails.py:39-45, clean_leads.py:41-46)
StatusFetch(j) ==
    /\ es # NoStatus
    /\ es.pc[j] = "fetch"
    /\ \E got \in SUBSET SharedLeads :
        es' = [es EXCEPT !.snap[j] = es.stored,
                         !.left[j] = got,
                         !.pc[j] = "loop"]
    /\ UNCHANGED <<fetchVars, runVars, flushVars>>

\* one lead of the loop of job j: update_lead writes the whole column from
\* the fetched copy plus the job's key (anymail_find_emails.py:84-89,
\* clean_leads.py:76-92)
StatusUpdate(j) ==
    /\ es # NoStatus
    /\ es.pc[j] = "loop"
    /\ \E l \in NextLeads(j), v \in OwnValues(j) :
        es' = [es EXCEPT !.stored[l] = Spread(es.snap[j][l], OwnKey(j), v),
                         !.left[j] = @ \ {l},
                         !.wrote[j] = @ \cup {l}]
    /\ UNCHANGED <<fetchVars, runVars, flushVars>>

\* one lead of the loop of job j without a write: no email found
\* (anymail_find_emails.py:71), the validation raised or update_lead raised
\* and the except clause counted it (clean_leads.py:93-95)
StatusSkip(j) ==
    /\ es # NoStatus
    /\ es.pc[j] = "loop"
    /\ \E l \in NextLeads(j) :
        es' = [es EXCEPT !.left[j] = @ \ {l}]
    /\ UNCHANGED <<fetchVars, runVars, flushVars>>

\* anymail_find_emails.py:89: update_lead raises and the exception leaves run()
StatusRaise(j) ==
    /\ es # NoStatus
    /\ j = "anymail"
    /\ es.pc[j] = "loop"
    /\ es.left[j] # {}
    /\ es' = [es EXCEPT !.pc[j] = "raised"]
    /\ UNCHANGED <<fetchVars, runVars, flushVars>>

\* the loop of job j is over
StatusEnd(j) ==
    /\ es # NoStatus
    /\ es.pc[j] = "loop"
    /\ es.left[j] = {}
    /\ es' = [es EXCEPT !.pc[j] = "done"]
    /\ UNCHANGED <<fetchVars, runVars, flushVars>>

NextStatus ==
    \/ \E j \in StatusJobs : StatusFetch(j)
    \/ \E j \in StatusJobs : StatusUpdate(j)
    \/ \E j \in StatusJobs : StatusSkip(j)
    \/ \E j \in StatusJobs : StatusRaise(j)
    \/ \E j \in StatusJobs : StatusEnd(j)

SpecStatus == InitStatus /\ [][NextStatus]_vars

(***************************************************************************)
(* Claims about get_leads (checked under SpecFetch).                       *)
(***************************************************************************)
\* the first min(limit, M) matching rows in the (order_by, id) order
ExpectedLeads == Truncate(SortRows(Matching(table)), limit)

\* C5: against a table nobody writes during the call, get_leads returns exactly
\* the first min(limit, M) matching rows in the (order_by, id) order: no row
\* twice, none of them omitted, no non-matching row, and the empty list when
\* nothing matches.
C5_ExactPrefix ==
    (fpc = "done" /\ mut_log = <<>>) =>
        /\ fresult = ExpectedLeads
        /\ Len(fresult) = Min(limit, Cardinality(Matching(table)))
        /\ NoDup(fresult)
        /\ Range(fresult) \subseteq Matching(table)
        /\ (Matching(table) = {} => fresult = <<>>)

\* C5 witness: more matching rows than one page, a non-matching row in the
\* table, several pages read and more than a page of rows returned.
C5_Witness ==
    /\ fpc = "done" /\ mut_log = <<>>
    /\ Cardinality(Matching(table)) > page_size
    /\ \E id \in Ids : table[id] = "other"
    /\ Len(requests) >= 2
    /\ Len(fresult) > page_size
    /\ Len(fresult) = limit

\* C6 (as claimed): whatever other processes write between two page requests,
\* the returned list has no duplicate and omits no row that matched during the
\* whole call (a list shorter than limit cannot have dropped it for the limit).
C6_AsClaimed ==
    fpc = "done" =>
        /\ NoDup(fresult)
        /\ (Len(fresult) < limit => always_matched \subseteq Range(fresult))

\* C7: every page request asks for min(page size, limit - accumulated) rows
\* at offset = accumulated; a request is issued only after full pages that
\* left the accumulation below limit, so none follows a short page or a
\* reached limit. With limit 7, page size 5 and 9 matching rows: two
\* requests, of 5 and of 2 rows, and 7 rows returned.
C7_PageRequests ==
    /\ \A i \in 1..Len(requests) :
          /\ requests[i].size = Min(page_size, limit - requests[i].before)
          /\ requests[i].size >= 1
          /\ requests[i].offset = requests[i].before
          /\ requests[i].before =
                IF i = 1 THEN 0 ELSE requests[i-1].before + requests[i-1].got
          /\ i < Len(requests) =>
                /\ requests[i].got = requests[i].size
                /\ requests[i].before + requests[i].got < limit
    /\ Len(fetched) = IF requests = <<>> THEN 0
                      ELSE requests[Len(requests)].before + requests[Len(requests)].got
    /\ fpc = "break" => requests[Len(requests)].got < requests[Len(requests)].size
    /\ (fpc = "done" /\ mut_log = <<>> /\ limit = 7 /\ page_size = 5
            /\ Cardinality(Matching(table)) = 9)
          => /\ [i \in 1..Len(requests) |-> requests[i].size] = <<5, 2>>
             /\ [i \in 1..Len(requests) |-> requests[i].got] = <<5, 2>>
             /\ Len(fresult) = 7

\* C7 witness: the scenario of the claim has run to its end.
C7_Witness ==
    /\ fpc = "done" /\ mut_log = <<>>
    /\ limit = 7 /\ page_size = 5
    /\ Cardinality(Matching(table)) = 9
    /\ Len(requests) = 2

(***************************************************************************)
(* Claims about run() (checked under Spec).                                *)
(***************************************************************************)
\* C1: when an exception leaves run() (a store call of run() raised), the
\* job ends failed with the exception's text cut to 2000 characters; once
\* run() has stopped and the controller has acted, the job is not running.
C1_FailureRecorded ==
    pc = "done" =>
        /\ job.status \in {"completed", "failed"}
        /\ exc # <<>> =>
            /\ job.status = "failed"
            /\ Len(job.error) = Min(Len(exc), ERROR_MAX)
            /\ job.error = SubSeq(exc, 1, Len(job.error))

\* C1 witness: in anymail_find_emails an update_lead call raised with a text
\* longer than 2000 characters, and the job ended failed.
C1_Witness ==
    /\ worker = "anymail" /\ pc = "done"
    /\ calls.update_lead = cnt.found + 1
    /\ Len(exc) > ERROR_MAX
    /\ job.status = "failed"

\* C2: run() calls at most one of complete() and fail(), at most once, and
\* once the job row carries a terminal status the row never changes again.
C2_OneTerminalWrite ==
    /\ [](calls.complete + calls.fail <= 1)
    /\ [][job.status # "running" => job' = job]_vars

\* C2 witness: a run that reported progress, completed and stopped.
C2_Witness ==
    /\ pc = "done"
    /\ job.status = "completed"
    /\ calls.complete = 1 /\ calls.fail = 0
    /\ calls.update_progress >= 2

\* C3: when the key lookup yields no key, run() calls fail() and nothing
\* else: no task, no get_leads, no lead write, no progress report, no
\* complete(); the job goes from running to failed (unless the write of
\* fail() itself raises).
C3_NoKeyFailsDirectly ==
    api_key \in {None, "empty"} =>
        /\ worker \in {"anymail", "scrape"}
        /\ calls.tasks = 0 /\ submitted = <<>>
        /\ calls.get_leads = 0 /\ leads = <<>>
        /\ calls.update_lead = 0
        /\ calls.bulk_insert = 0 /\ calls.single_insert = 0 /\ sink = 0
        /\ calls.update_progress = 0 /\ job.progress = Null
        /\ calls.complete = 0 /\ calls.fail = 1
        /\ job.status \in {"running", "failed"}
        /\ pc \in {"raised", "done"}
        /\ (pc = "done" /\ exc = <<>>) => job.status = "failed"

\* C3 witness: scrape_google_maps found a row with an empty key and failed.
C3_Witness ==
    /\ worker = "scrape" /\ api_key = "empty"
    /\ pc = "done" /\ exc = <<>>
    /\ job.status = "failed"
    /\ cfg.keywords > 0 /\ cfg.locations > 0

\* the worker has found its input set empty
EmptyLeads ==
    /\ worker \in {"anymail", "clean"}
    /\ leads = <<>>
    /\ pc \in {"a_empty", "c_empty"} \/ calls.complete = 1
EmptyLocations ==
    /\ worker = "scrape" /\ api_key = "key"
    /\ cfg.locations = 0
    /\ pc # "s_load"
EmptyKeywords ==
    /\ worker = "scrape" /\ api_key = "key"
    /\ cfg.locations > 0 /\ cfg.keywords = 0
    /\ pc # "s_load"

\* C4 (as claimed): with an empty input set the job ends failed and no task
\* is attempted.
C4_AsClaimed ==
    (pc = "done" /\ (EmptyLeads \/ EmptyLocations \/ EmptyKeywords)) =>
        /\ job.status = "failed"
        /\ calls.tasks = 0

\* C4 (amended): with an empty input set no task is attempted and run() ends
\* the job at once: by fail() for zero locations in scrape_google_maps, by
\* complete() for zero leads in anymail_find_emails and clean_leads (no
\* progress report, result processed = 0) and for zero keywords in
\* scrape_google_maps (one progress report 0/0, result total_leads = 0); the
\* job ends completed in the complete() cases unless a store call raised.
C4_EmptyInputEndsAtOnce ==
    /\ (EmptyLeads \/ EmptyLocations \/ EmptyKeywords) =>
        /\ calls.tasks = 0 /\ submitted = <<>>
        /\ calls.update_lead = 0 /\ calls.bulk_insert = 0 /\ calls.single_insert = 0
    /\ (EmptyLeads /\ pc = "done") =>
        /\ calls.complete = 1 /\ calls.fail = 0 /\ calls.update_progress = 0
        /\ exc = <<>> => /\ job.status = "completed"
                         /\ job.result.processed = 0
    /\ (EmptyLocations /\ pc = "done") =>
        /\ calls.fail = 1 /\ calls.complete = 0 /\ calls.update_progress = 0
        /\ exc = <<>> => job.status = "failed"
    /\ (EmptyKeywords /\ pc = "done" /\ exc = <<>>) =>
        /\ calls.complete = 1 /\ calls.fail = 0 /\ calls.update_progress = 1
        /\ job.status = "completed"
        /\ job.result.total_leads = 0
        /\ job.progress.processed = 0 /\ job.progress.total = 0

\* C4 witness: clean_leads got no lead and the job ended completed.
C4_Witness ==
    /\ worker = "clean" /\ EmptyLeads
    /\ pc = "done"
    /\ job.status = "completed"
    /\ calls.tasks = 0

\* C8: no two accepted leads share a non-empty place_id; an offer of a seen
\* non-empty place_id leaves buffer and seen set as they are, any other
\* offer appends the lead (an empty place_id is always accepted) and a key
\* never leaves the seen set; after a rejected offer exactly one accepted
\* lead carries that place_id, also when the two leads came from tasks that
\* executed at the same time.
C8_Dedup ==
    /\ [](\A i, j \in 1..Len(all_leads) :
            (i # j /\ all_leads[i] # "") => all_leads[i] # all_leads[j])
    /\ [](~last_offer.accepted /\ last_offer.task # 0 =>
            Cardinality({i \in 1..Len(all_leads) :
                            all_leads[i] = last_offer.place_id}) = 1)
    /\ [][seen_place_ids \subseteq seen_place_ids']_vars
    /\ [][(pc = "s_offer" /\ cur # <<>> /\ cur' # cur) =>
            IF Head(cur) # "" /\ Head(cur) \in seen_place_ids
            THEN all_leads' = all_leads /\ seen_place_ids' = seen_place_ids
            ELSE /\ all_leads' = Append(all_leads, Head(cur))
                 /\ seen_place_ids' = seen_place_ids \cup ({Head(cur)} \ {""})]_vars

\* C8 witness: two tasks executed at the same time, both returned a lead
\* with the same place_id, the first was accepted and the second rejected.
C8_Witness ==
    /\ worker = "scrape"
    /\ ~last_offer.accepted /\ last_offer.task # 0
    /\ last_offer.place_id \in DOMAIN owner
    /\ owner[last_offer.place_id].task # last_offer.task
    /\ last_offer.task \in owner[last_offer.place_id].conc

\* C9: at most N tasks execute at any instant (N = workers / concurrent),
\* and every executing task belongs to the current executor: between two
\* sub-batches of scrape_google_maps nothing executes.
C9_Ceiling ==
    /\ Cardinality(running) <= cfg.concurrent
    /\ running \subseteq Range(submitted)
    /\ pc \in {"s_for", "s_while", "s_rest", "s_final", "s_complete",
               "c_final", "c_complete", "done", "raised"} => running = {}

\* C9 witness: in a later sub-batch of scrape_google_maps N = 2 tasks are
\* executing.
C9_Witness ==
    /\ worker = "scrape"
    /\ cfg.concurrent = 2 /\ Cardinality(running) = 2
    /\ searches_done >= 1
    /\ \A t \in running : t > batch_submit_size(cfg.concurrent) \/ kw > 1

\* C10 (as claimed): in clean_leads and in scrape_google_maps the tasks
\* submitted and not finished never exceed the sub-batch size max(2N, floor).
C10_AsClaimed ==
    worker \in {"clean", "scrape"} =>
        Outstanding <= Max(2 * cfg.concurrent, MIN_SUBMIT)

\* C10 (amended): in scrape_google_maps the tasks submitted and not finished
\* never exceed max(2N, floor), and a sub-batch is cut only when every
\* task of the one before has finished; clean_leads submits all its leads
\* to one executor, so there only the number of leads bounds them.
C10_SubBatches ==
    /\ [](worker = "scrape" =>
            /\ Outstanding <= Max(2 * cfg.concurrent, MIN_SUBMIT)
            /\ Len(batch_tasks) <= Max(2 * cfg.concurrent, MIN_SUBMIT)
            /\ Range(submitted) \subseteq Range(batch_tasks))
    /\ [](worker = "clean" =>
            /\ Outstanding <= Len(leads)
            /\ Len(leads) <= cfg.max_leads)
    /\ [][batch_tasks' # batch_tasks => (started = Len(submitted) /\ running = {})]_vars

\* C10 witness: scrape_google_maps is submitting the second sub-batch of a
\* keyword after a first one of full size.
C10_Witness ==
    /\ worker = "scrape"
    /\ task_idx - Len(batch_tasks) = Max(2 * cfg.concurrent, MIN_SUBMIT)
    /\ Len(submitted) >= 1
    /\ Outstanding >= 1
\* the futures finished and not yet yielded, in finish order
Waiting == early \o finq

\* the with block of the worker has been left without an exception
ExecutorLeft == pc \in {"c_final", "c_complete", "s_while", "s_for", "s_rest",
                        "s_final", "s_complete"}

\* C11 (as claimed): every submitted task that finishes is handled exactly
\* once, also in the sub-batch in flight when max_leads is reached, and the
\* handler takes the finished tasks in the order in which they finished.
C11_AsClaimed ==
    /\ []((ExecutorLeft /\ submitted # <<>>) => handled = Range(submitted))
    /\ [][(handled' # handled /\ submitted' = submitted) =>
            handled' = handled \cup {Head(Waiting)}]_vars

\* C11 (amended): no task is handled twice and only finished tasks are
\* handled; clean_leads handles every submitted task exactly once (when no
\* exception leaves run()), scrape_google_maps every task of a sub-batch
\* unless max_leads was reached, in which case the tasks of that sub-batch
\* not yet handled run to their end and their results are dropped; a task
\* that finishes after as_completed was entered is handled in finish order
\* and after the tasks that had finished before, which come in no fixed
\* order.
C11_HandledOnce ==
    /\ [](/\ NoDup(Waiting)
          /\ Range(Waiting) \cap handled = {}
          /\ handled \subseteq Range(submitted)
          /\ (Range(Waiting) \cup handled) \cap running = {}
          /\ NoDup(submitted))
    /\ [](worker = "clean" =>
            /\ cnt.processed = Cardinality(handled)
            /\ (ExecutorLeft => handled = Range(leads)))
    /\ []((worker = "scrape" /\ ExecutorLeft /\ Len(all_leads) < cfg.max_leads) =>
            handled = Range(submitted))
    /\ []((worker = "scrape" /\ pc = "done" /\ job.status = "completed"
              /\ Len(all_leads) < cfg.max_leads) =>
            searches_done = cfg.keywords * cfg.locations)
    /\ [][(handled' # handled /\ submitted' = submitted) =>
            /\ \E t \in Range(Waiting) : t \notin handled /\ handled' = handled \cup {t}
            /\ worker = "scrape" => searches_done' = searches_done + 1
            /\ worker = "clean" => cnt'.processed = cnt.processed + 1
            /\ IF early = <<>> THEN handled' = handled \cup {Head(finq)}
               ELSE handled' \ handled \subseteq Range(early)]_vars

\* C11 witness: clean_leads has handled a task while a task submitted before
\* it is still executing (completion order, not submission order), the
\* handled task having finished after as_completed was entered.
C11_Witness ==
    /\ worker = "clean" /\ pc = "c_iter"
    /\ early = <<>>
    /\ \E i, j \in 1..Len(submitted) :
        /\ i < j
        /\ submitted[i] \in running
        /\ submitted[j] \in handled
\* C12: in scrape_google_maps, once max_leads leads are accepted nothing is
\* submitted any more (no further sub-batch, no task of a later keyword),
\* and every task submitted to the current sub-batch is started and runs to
\* its end before the remainder is flushed and the job completed.
C12_StopAtTarget ==
    /\ [][(worker = "scrape" /\ Len(all_leads) >= cfg.max_leads) =>
            (submitted' = submitted /\ batch_tasks' = batch_tasks
                /\ task_idx' = task_idx)]_vars
    /\ []((worker = "scrape" /\ pc \in {"s_while", "s_for", "s_rest", "s_final",
                                       "s_complete"}) =>
            (started = Len(submitted) /\ running = {}))
    /\ []((worker = "scrape" /\ job.status = "completed") =>
            (started = Len(submitted) /\ running = {}))
    /\ [][(worker = "scrape" /\ started' # started /\ submitted' = submitted) =>
            started' = started + 1]_vars

\* C12 witness: max_leads was reached with a task of the sub-batch not yet
\* handled and another sub-batch of the keyword still to cut; every task of
\* the sub-batch has run to its end and the remainder is about to be flushed.
C12_Witness ==
    /\ worker = "scrape" /\ pc = "s_rest"
    /\ Len(all_leads) >= cfg.max_leads
    /\ handled # Range(submitted)
    /\ started = Len(submitted) /\ running = {}
    /\ task_idx < cfg.locations
\* an update_lead call of anymail_find_emails raised (line 89: found is
\* incremented only after the call returns)
LeadWriteRaised == worker = "anymail" /\ calls.update_lead > cnt.found

\* C13 (as claimed): a failing task, or a failing per-record write while its
\* result is handled, never aborts the job: when no other call raised, the
\* run that passed its preconditions processes every task and the job ends
\* completed.
C13_AsClaimed ==
    (pc \in {"raised", "done"} /\ calls.fail = 0 /\ (exc = <<>> \/ LeadWriteRaised)) =>
        /\ job.status = "completed"
        /\ worker \in {"anymail", "clean"} => cnt.processed = Len(leads)
(***************************************************************************)
(* Claims about the buffer and its flushes (checked under SpecSink).       *)
(***************************************************************************)
RECURSIVE SumSeq(_)
SumSeq(q) == IF q = <<>> THEN 0 ELSE Head(q) + SumSeq(Tail(q))

\* leads accepted and not yet handed to _flush_batch
Unflushed == Len(all_leads) - SumSeq(flushes)

\* run() is past the flush of the remainder
PastRest == \/ worker = "scrape" /\ pc \in {"s_final", "s_complete"}
            \/ worker = "scrape" /\ job.status = "completed"
            \/ worker = "sink" /\ pc = "done"

\* the flushes of n leads with batch size b: full batches, then the remainder
FlushSizes(n, b) ==
    [i \in 1..((n + b - 1) \div b) |-> IF i * b <= n THEN b ELSE n % b]

\* the buffer and its flushes, as far as the claim and its amendment agree:
\* fewer than B unflushed leads at any time, full batches of B before the
\* end, and past the end every lead handed to exactly one flush, the
\* remainder in one last flush; 12 leads with B = 5 give 5, 5, 2.
FlushDiscipline ==
    /\ Unflushed >= 0 /\ Unflushed < cfg.batch_size
    /\ flushes = FlushSizes(Len(all_leads) - Unflushed, cfg.batch_size)
    /\ PastRest =>
        /\ Unflushed = 0
        /\ flushes = FlushSizes(Len(all_leads), cfg.batch_size)
        /\ (Len(all_leads) = 12 /\ cfg.batch_size = 5) => flushes = <<5, 5, 2>>
    /\ (worker = "scrape" /\ job.status = "completed") =>
            job.result.total_leads = Len(all_leads)

\* C14 (as claimed): the flush discipline, and the number of leads written
\* to the leads table equals the number of leads produced (total_leads).
C14_AsClaimed ==
    worker \in {"scrape", "sink"} /\ pc \notin {"start", "s_load"} =>
        /\ FlushDiscipline
        /\ PastRest => sink = Len(all_leads)

\* C14 (amended): the flush discipline holds; the leads written are at most
\* the leads produced: all of them when the job has a campaign_id and no
\* bulk insert failed, none when it has no campaign_id (_flush_batch then
\* returns at once), and otherwise those of the batches whose bulk insert
\* returned plus the leads whose individual insert returned.
C14_Flushes ==
    worker \in {"scrape", "sink"} /\ (pc # "start" \/ worker = "sink") /\ pc # "s_load" =>
        /\ FlushDiscipline
        /\ sink >= 0 /\ sink <= SumSeq(flushes)
        /\ (cfg.campaign_id /\ calls.single_insert = 0) => sink = SumSeq(flushes)
        /\ cfg.campaign_id => calls.bulk_insert = Len(flushes)
        /\ ~cfg.campaign_id => (sink = 0 /\ calls.bulk_insert = 0
                                  /\ calls.single_insert = 0)
        /\ cfg.campaign_id => sink >= SumSeq(flushes) - calls.single_insert

\* C14 witness: 12 leads with batch size 5 went through the buffer, were
\* flushed as 5, 5, 2 and were all written.
C14_Witness ==
    /\ worker = "sink" /\ pc = "done"
    /\ Len(all_leads) = 12 /\ cfg.batch_size = 5
    /\ flushes = <<5, 5, 2>>
    /\ sink = 12
(***************************************************************************)
(* Claims about _flush_batch (checked under SpecFlush).                    *)
(***************************************************************************)
\* the leads written by the insert calls made so far
Written(w) == SumSeq([j \in 1..Len(w) |-> IF w[j].ok THEN Len(w[j].rows) ELSE 0])

\* C15: no failure of an insert leaves _flush_batch; a bulk insert of the
\* whole batch comes first; when it returns no individual insert follows;
\* when it fails, exactly k individual inserts follow, one per lead in batch
\* order, whether or not some of them fail; and the call comes to what
\* flush_batch says of it.
C15_Fallback ==
    /\ fl.pc # "raised"
    /\ \A j \in 1..Len(fl.writes) :
          fl.writes[j].rows = IF j = 1 THEN fl.batch ELSE <<fl.batch[j - 1]>>
    /\ Len(fl.writes) > 1 => ~fl.writes[1].ok
    /\ fl.pc = "returned" =>
          LET k == Len(fl.batch)
              w == fl.writes
              n_ok == Cardinality({j \in 2..Len(w) : w[j].ok})
          IN  /\ (k = 0 \/ ~cfg.campaign_id) => w = <<>>
              /\ (k > 0 /\ cfg.campaign_id) =>
                    /\ Len(w) = IF w[1].ok THEN 1 ELSE 1 + k
                    /\ flush_batch(k, w[1].ok, n_ok) =
                          [sink |-> Written(w), bulk |-> 1,
                           single |-> Len(w) - 1]
              /\ w = <<>> => flush_batch(k, TRUE, 0) = [sink |-> 0, bulk |-> 0, single |-> 0]

\* C15 witness: the bulk insert of three or more leads failed, an individual
\* insert failed too, a later one succeeded, and the call returned.
C15_Witness ==
    /\ fl.pc = "returned"
    /\ Len(fl.batch) >= 3
    /\ Len(fl.writes) = 1 + Len(fl.batch)
    /\ ~fl.writes[1].ok
    /\ ~fl.writes[2].ok
    /\ fl.writes[Len(fl.writes)].ok
(***************************************************************************)
(* Claims about the progress field (checked under Spec).                   *)
(***************************************************************************)
\* C16: the processed value of the job's progress field never decreases,
\* from one write of update_progress or complete() to the next.
C16_ProcessedMonotone ==
    [][(job.progress # Null /\ job'.progress # job.progress) =>
            /\ job'.progress # Null
            /\ job'.progress.processed >= job.progress.processed]_vars

\* C16 witness: a completed job with three or more progress reports before
\* complete(), up to a processed value of 3 or more.
C16_Witness ==
    /\ job.status = "completed"
    /\ calls.update_progress >= 3
    /\ job.progress.processed >= 3
\* the metrics a progress snapshot carries
Metrics(progress) == IF progress = Null THEN {} ELSE DOMAIN progress.extra \ {"none"}

FirstReport == job.progress = Null /\ job'.progress # Null

\* the step is a complete() that is not the one of an empty lead list
CompleteStep == job.status = "running" /\ job'.status = "completed" /\ ~EmptyLeads

\* at complete() the progress field holds the final counts, after which no
\* report is published
FinalReport ==
    /\ [][CompleteStep =>
            /\ job.progress # Null
            /\ worker \in {"anymail", "clean"} =>
                /\ job.progress.processed = Len(leads)
                /\ job.progress.total = Len(leads)
                /\ job.progress.processed = job'.result.processed
                /\ \A m \in Metrics(job.progress) :
                        job.progress.extra[m] = job'.result[m]
            /\ worker = "clean" => handled = Range(submitted)
            /\ worker = "scrape" =>
                /\ job.progress.processed = Len(all_leads)
                /\ job.progress.total = Len(all_leads)
                /\ job.progress.processed = job'.result.total_leads
                /\ running = {} /\ started = Len(submitted)]_vars
    /\ [][job.status = "completed" =>
            (job' = job /\ calls'.update_progress = calls.update_progress)]_vars

\* C18 (as claimed): every worker publishes a report with processed = 0
\* before any task is executed, and the final counts before complete();
\* nothing is reported after complete().
C18_AsClaimed ==
    /\ [](calls.tasks > 0 => job.progress # Null)
    /\ [][FirstReport => (job'.progress.processed = 0 /\ calls.tasks = 0)]_vars
    /\ FinalReport

\* C18 (amended): anymail_find_emails and clean_leads publish a report with
\* processed = 0 before any task is executed; scrape_google_maps publishes
\* none: its first report follows the first full batch of leads, or is the
\* final one. Every worker publishes the final counts after the last task
\* was handled and before complete(), and nothing after complete().
C18_Reports ==
    /\ []((worker \in {"anymail", "clean"} /\ calls.tasks > 0) => job.progress # Null)
    /\ [][(worker \in {"anymail", "clean"} /\ FirstReport) =>
            (job'.progress.processed = 0 /\ job'.progress.total = Len(leads)
                /\ calls.tasks = 0)]_vars
    /\ [][(worker = "scrape" /\ FirstReport) =>
            \/ calls.tasks > 0 /\ job'.progress.processed = Len(all_leads')
                               /\ job'.progress.processed > 0
            \/ pc = "s_final"]_vars
    /\ FinalReport

\* C18 witness: clean_leads executed tasks after its 0/total report,
\* published the final counts and completed.
C18_Witness ==
    /\ worker = "clean"
    /\ job.status = "completed"
    /\ calls.tasks >= 2
    /\ calls.update_progress >= 2
    /\ job.progress.processed = Len(leads)
\* the result summary run() hands to complete()
Summary ==
    IF EmptyLeads THEN [processed |-> 0, message |-> "no leads"]
    ELSE IF worker = "anymail"
    THEN [processed |-> cnt.processed, found |-> cnt.found,
          credits_used |-> cnt.credits_used, total |-> Len(leads)]
    ELSE IF worker = "clean"
    THEN [processed |-> cnt.processed, valid |-> cnt.valid,
          invalid |-> cnt.invalid, total |-> Len(leads)]
    ELSE [total_leads |-> Len(all_leads),
          unique_places |-> Cardinality(seen_place_ids),
          keywords |-> cfg.keywords,
          searches_completed |-> searches_done]

\* the first ERROR_MAX characters of a message
FirstChars(msg) == SubSeq(msg, 1, IF Len(msg) < ERROR_MAX THEN Len(msg) ELSE ERROR_MAX)

\* C19: complete() sets status = completed and stores the worker's result
\* summary with a progress snapshot whose processed/total are those of the
\* last update_progress call (0/0 when there was none); fail() sets status =
\* failed, stores the first 2000 characters of its message, and leaves the
\* result and progress fields as they were.
C19_TerminalWrites ==
    /\ [][(job.status = "running" /\ job'.status = "completed") =>
            /\ calls'.complete = calls.complete + 1
            /\ job'.result = Summary
            /\ job'.error = job.error
            /\ job'.progress.extra = NoExtra
            /\ IF job.progress = Null
               THEN /\ calls.update_progress = 0
                    /\ job'.progress.processed = 0 /\ job'.progress.total = 0
               ELSE /\ job'.progress.processed = job.progress.processed
                    /\ job'.progress.total = job.progress.total]_vars
    /\ [][(job.status = "running" /\ job'.status = "failed") =>
            /\ job'.result = job.result
            /\ job'.progress = job.progress
            /\ Len(job'.error) <= ERROR_MAX
            /\ \E e \in StoreErrors \cup {ConfigError} : job'.error = FirstChars(e)]_vars
    /\ [](\A e \in StoreErrors \cup {ConfigError} :
            LET r == fail_row(job, e)
            IN  /\ r.status = "failed"
                /\ r.error = FirstChars(e)
                /\ Len(r.error) <= ERROR_MAX
                /\ r.result = job.result
                /\ r.progress = job.progress)

\* C19 witness: a run that reported progress and completed with that
\* snapshot and its summary.
C19_Witness ==
    /\ job.status = "completed"
    /\ calls.update_progress >= 2
    /\ job.progress.processed = self_processed
    /\ job.progress.processed > 0
    /\ job.result = Summary
\* C20 (as claimed): once clean_leads and anymail_find_emails have both
\* written the enrichment_status of a lead, the stored map holds both jobs'
\* keys.
C20_AsClaimed ==
    es # NoStatus =>
        \A l \in es.wrote["clean"] \cap es.wrote["anymail"] :
            /\ es.stored[l] # Null
            /\ \A j \in StatusJobs : es.stored[l][OwnKey(j)] # Absent
\* C21: in scrape_google_maps, with at most MaxResults leads per task, the
\* accepted leads stay below max_leads + MaxResults: a future is taken up
\* only below the target, so the leads accepted past the target all come
\* from the one task whose handling reached it; the result's total_leads is
\* that number, and it is the number handed to _flush_batch.
C21_Overshoot ==
    /\ [](worker = "scrape" => Len(all_leads) < cfg.max_leads + MaxResults)
    /\ [][(worker = "scrape" /\ pc = "s_iter" /\ pc' = "s_offer") =>
            Len(all_leads) < cfg.max_leads]_vars
    /\ [][(worker = "scrape" /\ all_leads' # all_leads) =>
            /\ pc = "s_offer"
            /\ Len(all_leads) >= cfg.max_leads => last_offer.task = cur_task]_vars
    /\ []((worker = "scrape" /\ job.status = "completed") =>
            /\ job.result.total_leads = Len(all_leads)
            /\ job.result.total_leads < cfg.max_leads + MaxResults
            /\ SumSeq(flushes) = Len(all_leads))

\* C21 witness: a completed run that overshot its target by the most one
\* task can add, while another task of the sub-batch was never handled.
C21_Witness ==
    /\ worker = "scrape"
    /\ job.status = "completed"
    /\ MaxResults >= 2
    /\ Len(all_leads) = cfg.max_leads + MaxResults - 1
    /\ handled # Range(submitted)
\* C22 (as claimed): in every progress snapshot of the job row, written by
\* update_progress or by complete(), processed <= total.
C22_AsClaimed ==
    job.progress # Null => job.progress.processed <= job.progress.total
\* C23 (as claimed): in clean_leads valid + invalid = processed after every
\* handled completion, hence in every published report and in the final
\* result, where also processed = total = the number of fetched leads.
C23_AsClaimed ==
    worker = "clean" =>
        /\ cnt.valid + cnt.invalid = cnt.processed
        /\ (job.progress # Null /\ Metrics(job.progress) # {}) =>
                job.progress.extra.valid + job.progress.extra.invalid
                    = job.progress.processed
        /\ (job.status = "completed" /\ ~EmptyLeads) =>
                /\ job.result.valid + job.result.invalid = job.result.processed
                /\ job.result.processed = job.result.total
                /\ job.result.total = Len(leads)
\* C24: unless a store call raised out of run(), every execution of run()
\* comes to its end with the job completed or failed, having called
\* complete() or fail() exactly once; scrape_google_maps writes the terminal
\* status only after every submitted task has finished.
C24_Terminates ==
    /\ <>(exc # <<>> \/ (pc = "done" /\ job.status \in {"completed", "failed"}
                            /\ calls.complete + calls.fail = 1))
    /\ [](calls.complete + calls.fail <= 1)
    /\ []((worker = "scrape" /\ job.status # "running") => AllFinished)

\* C24 witness: scrape_google_maps completed after two sub-batches of
\* searches, with no exception.
C24_Witness ==
    /\ worker = "scrape"
    /\ pc = "done"
    /\ exc = <<>>
    /\ job.status = "completed"
    /\ searches_done > batch_submit_size(cfg.concurrent)
    /\ AllFinished
====
